---- MODULE Spec2Model ----
(***************************************************************************)
(* A model of src/src/App.tsx: the streamed translation decoder            *)
(* (translateTextStream), the request coordinator (performTranslation)     *)
(* and the debounce effect that dispatches it.                             *)
(*                                                                         *)
(* A JavaScript string is modelled as a sequence of one-character strings, *)
(* so that split, trim, toLowerCase and includes are computed and not      *)
(* assumed.  One action is one run-to-completion step of the event loop:   *)
(* an event handler, a timer callback, or the continuation after an await  *)
(* together with the microtasks it triggers.                               *)
(***************************************************************************)
EXTENDS Integers, Sequences, FiniteSets, TLC

VARIABLES
    input,               \* useState('') input, line 77
    translation,         \* useState(null) translation, line 78
    isTranslating,       \* useState(false) isTranslating, line 80
    timers,              \* the host's table of pending setTimeout timers
    debounceTimerRef,    \* TRUE when debounceTimerRef.current holds a timer id
    abortControllerRef,  \* request whose AbortController the ref holds, 0 = null
    aborted,             \* requests whose AbortController received abort()
    reqs,                \* per call of performTranslation: the stream's position
    remoteCalls,         \* texts handed to generateContentStream, in call order
    uncaught,            \* TRUE once an exception left performTranslation
    quiet,               \* ms since the input last changed (saturating)
    publishedBy,         \* request whose result translation holds, 0 = none
    burst,               \* input changes and remote calls of the current burst
    dec,                 \* one translateTextStream generator run on its own
    spk,                 \* speech output: flags, calls in flight, audio element
    rec                  \* speech recognition: isRecording and the recognizers

vars == <<input, translation, isTranslating, timers, debounceTimerRef,
          abortControllerRef, aborted, reqs, remoteCalls, uncaught, quiet,
          publishedBy, burst, dec, spk, rec>>

appVars == <<input, translation, isTranslating, timers, debounceTimerRef,
             abortControllerRef, aborted, reqs, remoteCalls, uncaught, quiet,
             publishedBy, burst>>

----------------------------------------------------------------------------
(* Bounds of the model *)

MaxRequests == 2        \* calls of the remote service in one run
MaxChunks == 2          \* non-empty chunks one request's stream delivers
MaxStreamChunks == 3    \* chunks of the stand-alone generator run
MaxChunkLen == 2        \* characters of a chunk of the stand-alone run
TickMs == 100           \* granularity of the clock

----------------------------------------------------------------------------
(* JavaScript string operations, on sequences of characters *)

NL == "\n"

Min(a, b) == IF a < b THEN a ELSE b

\* String.prototype.trim: white space is removed from both ends
IsSpace(c) == c \in {" ", NL, "\t"}

RECURSIVE TrimStart(_)
TrimStart(s) ==
    IF s # <<>> /\ IsSpace(Head(s)) THEN TrimStart(Tail(s)) ELSE s

RECURSIVE TrimEnd(_)
TrimEnd(s) ==
    IF s # <<>> /\ IsSpace(s[Len(s)])
    THEN TrimEnd(SubSeq(s, 1, Len(s) - 1))
    ELSE s

Trim(s) == TrimEnd(TrimStart(s))

\* String.prototype.toLowerCase, on the letters the model uses
LowerChar(c) ==
    CASE c = "Z" -> "z"
      [] c = "H" -> "h"
      [] OTHER -> c

RECURSIVE ToLowerCase(_)
ToLowerCase(s) ==
    IF s = <<>> THEN <<>> ELSE <<LowerChar(Head(s))>> \o ToLowerCase(Tail(s))

\* String.prototype.includes
Includes(s, sub) ==
    \E i \in 0..(Len(s) - Len(sub)) : SubSeq(s, i + 1, i + Len(sub)) = sub

\* String.prototype.indexOf for one character, 1-based, 0 when absent
IndexOf(s, c) ==
    IF \E i \in 1..Len(s) : s[i] = c
    THEN CHOOSE i \in 1..Len(s) : s[i] = c /\ \A j \in 1..(i - 1) : s[j] # c
    ELSE 0

\* String.prototype.split(sep) for a one-character separator
RECURSIVE Split(_, _)
Split(s, sep) ==
    LET i == IndexOf(s, sep)
    IN  IF i = 0
        THEN <<s>>
        ELSE <<SubSeq(s, 1, i - 1)>> \o Split(SubSeq(s, i + 1, Len(s)), sep)

\* Array.prototype.join(sep)
RECURSIVE Join(_, _)
Join(parts, sep) ==
    IF parts = <<>> THEN <<>>
    ELSE IF Len(parts) = 1 THEN parts[1]
    ELSE parts[1] \o <<sep>> \o Join(Tail(parts), sep)

\* Array.prototype.slice(1)
Slice1(parts) == Tail(parts)

----------------------------------------------------------------------------
(* translateTextStream, lines 28-73 *)

\* the state of the generator's locals before the first chunk, lines 52-53
DecoderInit == [detectedLang |-> "", fullText |-> <<>>]

\* the value yielded at lines 64 and 67
Result(st) == [detectedLanguage |-> st.detectedLang, translation |-> st.fullText]

\* line 57: if (!chunkText) continue
Skips(chunkText) == chunkText = <<>>

\* a variant of line 61 that compares without toLowerCase
DetectLangCaseSensitive(chunkText) ==
    LET lines == Split(chunkText, NL)
    IN  IF Includes(Trim(lines[1]), <<"z", "h">>) THEN "zh" ELSE "en"

\* line 61
DetectLang(chunkText) ==
    LET lines == Split(chunkText, NL)
    IN  IF Includes(ToLowerCase(Trim(lines[1])), <<"z", "h">>)
        THEN "zh"
        ELSE "en"

\* line 62
Remaining(chunkText) == Join(Slice1(Split(chunkText, NL)), NL)

\* a variant of lines 63 and 66 that assigns instead of appending
AppendTextAssigns(fullText, more) == more

\* line 63 and line 66: fullText += ...
AppendText(fullText, more) == fullText \o more

\* one iteration of the for-await body, lines 56-68, for a chunk not skipped
DecodeChunk(st, chunkText) ==
    IF st.detectedLang = ""
    THEN [detectedLang |-> DetectLang(chunkText),
          fullText |-> AppendText(st.fullText, Remaining(chunkText))]
    ELSE [detectedLang |-> st.detectedLang,
          fullText |-> AppendText(st.fullText, chunkText)]

\* a variant of the test that does not trim: !text
IsBlankNoTrim(text) == text = <<>>

\* line 29 of translateTextStream and line 163 of performTranslation: !text.trim()
IsBlank(text) == Trim(text) = <<>>

\* the catch of lines 70-72 encloses the remote call and the whole loop
GeneratorCatches == TRUE

\* the catch of lines 182-184 encloses the for-await of performTranslation
PerformCatches == TRUE

\* isComplete of a published value: no yielded object carries the field
IsComplete(r) == "isComplete" \in DOMAIN r /\ r.isComplete = TRUE

Null == [null |-> TRUE]

----------------------------------------------------------------------------
(* The App component, lines 76-207 *)

\* texts the input takes: empty, white space only, fewer than 5 characters,
\* exactly 5 characters
Texts == { <<>>, <<" ">>, <<"a">>, <<"h", "e", "l", "l", "o">> }

\* chunks the remote stream may deliver to the request for a text: an empty
\* chunk, or a piece of the service's answer to that text
ResponseChunks(text) ==
    IF Len(text) < 2
    THEN { <<>>, <<"e", "n", NL, "b">> }
    ELSE { <<>>, <<"Z", "H", NL, "a">> }

ReqIds == 1..MaxRequests

ShortDelay == 200
LongDelay == 400
ShortLen == 5

\* a variant of line 196 that compares with <=
DelayInclusive(text) == IF Len(text) <= ShortLen THEN ShortDelay ELSE LongDelay

\* line 196: input.length < 5 ? 200 : 400
Delay(text) == IF Len(text) < ShortLen THEN ShortDelay ELSE LongDelay

\* the request started last, 0 when none was
Latest == Len(remoteCalls)

Active(r) == reqs[r].pc \in {"awaitCall", "streaming"}

\* a call of performTranslation: where it is suspended, and while its
\* generator lives the generator's locals and the number of results it yielded
IdleReq == [pc |-> "idle", st |-> DecoderInit, yielded |-> 0]

\* a call that has returned: the generator and its locals are gone
Returned(pc) == [pc |-> pc, st |-> DecoderInit, yielded |-> 0]

\* a variant of the effect that never calls clearTimeout
ClearTimeoutNone(table) == table

\* clearTimeout(debounceTimerRef.current), lines 190-192 and 205: the timer
\* the ref names leaves the table, if it is still pending
ClearTimeout(table) ==
    IF debounceTimerRef THEN {t \in table : ~t.current} ELSE table

\* setTimeout(..., delay) assigned to debounceTimerRef.current, lines 197-199
SetTimeout(table, text) ==
    {[t EXCEPT !.current = FALSE] : t \in table}
        \cup {[text |-> text, delay |-> Delay(text), elapsed |-> 0,
               current |-> TRUE]}

\* a variant of the effect without the test of line 194: a timer is
\* scheduled for the empty text too and nothing is cleared
DebounceEffectAlwaysSchedules(text) ==
    /\ timers' = SetTimeout(ClearTimeout(timers), text)
    /\ debounceTimerRef' = TRUE
    /\ UNCHANGED <<translation, publishedBy>>

\* the effect of lines 189-207 for a new value of input (with the cleanup
\* of the previous run, line 205)
DebounceEffect(text) ==
    IF text # <<>>
    THEN /\ timers' = SetTimeout(ClearTimeout(timers), text)
         /\ debounceTimerRef' = TRUE
         /\ UNCHANGED <<translation, publishedBy>>
    ELSE /\ timers' = ClearTimeout(timers)
         /\ translation' = Null
         /\ publishedBy' = 0
         /\ UNCHANGED debounceTimerRef

\* the burst after a change of the input: the change continues the burst
\* when it arrives before the delay of the text it replaces has elapsed, and
\* starts a new one otherwise.  changes counts 1 or "2 or more".
BurstAfterChange ==
    IF burst.changes > 0 /\ quiet < Delay(input)
    THEN [changes |-> 2, calls |-> burst.calls]
    ELSE [changes |-> 1, calls |-> 0]

\* setInput with a new value (lines 115, 418, 431) and the render and
\* effect that follow it
ReplaceInput(text) ==
    /\ text # input
    /\ input' = text
    /\ DebounceEffect(text)
    /\ quiet' = 0
    /\ burst' = BurstAfterChange
    /\ UNCHANGED <<isTranslating, abortControllerRef, aborted, reqs,
                   remoteCalls, uncaught, dec, spk>>

\* the text area or the clear button changes the input: lines 418 and 431
SetInput(text) ==
    /\ ReplaceInput(text)
    /\ UNCHANGED rec

\* time passes: every pending timer ages
Tick ==
    /\ quiet < LongDelay
    /\ quiet' = Min(quiet + TickMs, LongDelay)
    /\ timers' = {[t EXCEPT !.elapsed = Min(t.elapsed + TickMs, LongDelay)] :
                    t \in timers}
    /\ UNCHANGED <<input, translation, publishedBy, isTranslating, debounceTimerRef,
                   abortControllerRef, aborted, reqs, remoteCalls, uncaught,
                   burst, dec, spk, rec>>

\* performTranslation(text) up to its first await, lines 162-179, with the
\* start of the generator, lines 28-50
PerformTranslation(text) ==
    IF IsBlank(text)
    THEN /\ translation' = Null
         /\ publishedBy' = 0
         /\ isTranslating' = FALSE
         /\ UNCHANGED <<abortControllerRef, aborted, reqs, remoteCalls, burst>>
    ELSE /\ Latest < MaxRequests
         /\ aborted' = aborted \cup
                (IF abortControllerRef # 0 THEN {abortControllerRef} ELSE {})
         /\ abortControllerRef' = Latest + 1
         /\ UNCHANGED <<translation, publishedBy>>
         /\ IF IsBlank(text)
            THEN \* line 29: the generator returns at once, line 185 follows
                 /\ isTranslating' = FALSE
                 /\ UNCHANGED <<reqs, remoteCalls, burst>>
            ELSE /\ isTranslating' = TRUE
                 /\ remoteCalls' = Append(remoteCalls, text)
                 /\ burst' = [burst EXCEPT !.calls = @ + 1]
                 /\ reqs' = [reqs EXCEPT ![Latest + 1].pc = "awaitCall"]

\* the callback of line 197 runs
TimerFires(t) ==
    /\ t \in timers
    /\ t.elapsed >= t.delay
    /\ timers' = timers \ {t}
    /\ PerformTranslation(t.text)
    /\ UNCHANGED <<input, debounceTimerRef, uncaught, quiet, dec, spk, rec>>

\* generateContentStream resolves, line 43; the loop awaits the first chunk
CallResolves(r) ==
    /\ reqs[r].pc = "awaitCall"
    /\ reqs' = [reqs EXCEPT ![r].pc = "streaming"]
    /\ UNCHANGED <<input, translation, publishedBy, isTranslating, timers, debounceTimerRef,
                   abortControllerRef, aborted, remoteCalls, uncaught, quiet,
                   burst, dec, spk, rec>>

\* a chunk arrives: one iteration of the loop of lines 55-69 and, when it
\* yields, of the loop of lines 179-181
ChunkArrives(r, chunkText) ==
    /\ reqs[r].pc = "streaming"
    /\ IF Skips(chunkText)
       THEN UNCHANGED <<reqs, translation, publishedBy>>
       ELSE LET st == DecodeChunk(reqs[r].st, chunkText)
            IN  /\ reqs[r].yielded < MaxChunks
                /\ reqs' = [reqs EXCEPT ![r].st = st,
                                        ![r].yielded = @ + 1]
                /\ translation' = Result(st)
                /\ publishedBy' = r
    /\ UNCHANGED <<input, isTranslating, timers, debounceTimerRef,
                   abortControllerRef, aborted, remoteCalls, uncaught, quiet,
                   burst, dec, spk, rec>>

\* a variant of the normal end that has no finally block
StreamEndsNoFinally(r) ==
    /\ reqs[r].pc = "streaming"
    /\ reqs' = [reqs EXCEPT ![r] = Returned("ended")]
    /\ UNCHANGED <<input, translation, publishedBy, isTranslating, timers,
                   debounceTimerRef, abortControllerRef, aborted, remoteCalls,
                   uncaught, quiet, burst, dec, spk, rec>>

\* the stream ends: the generator returns, the loop of line 179 ends and the
\* finally of line 185 runs
StreamEnds(r) ==
    /\ reqs[r].pc = "streaming"
    /\ reqs' = [reqs EXCEPT ![r] = Returned("ended")]
    /\ isTranslating' = FALSE
    /\ UNCHANGED <<input, translation, publishedBy, timers, debounceTimerRef,
                   abortControllerRef, aborted, remoteCalls, uncaught, quiet,
                   burst, dec, spk, rec>>

\* a variant of the error path that has no finally block
StreamErrorsNoFinally(r) ==
    /\ Active(r)
    /\ reqs' = [reqs EXCEPT ![r] = Returned("errored")]
    /\ uncaught' = (uncaught \/ ~(GeneratorCatches \/ PerformCatches))
    /\ UNCHANGED <<input, translation, publishedBy, isTranslating, timers,
                   debounceTimerRef, abortControllerRef, aborted, remoteCalls,
                   quiet, burst, dec, spk, rec>>

\* the remote call rejects (line 43) or the stream throws (line 55): the
\* catch of line 70 or else of line 182 takes it, the finally of line 185 runs
StreamErrors(r) ==
    /\ Active(r)
    /\ reqs' = [reqs EXCEPT ![r] = Returned("errored")]
    /\ isTranslating' = FALSE
    /\ uncaught' = (uncaught \/ ~(GeneratorCatches \/ PerformCatches))
    /\ UNCHANGED <<input, translation, publishedBy, timers, debounceTimerRef,
                   abortControllerRef, aborted, remoteCalls, quiet, burst, dec,
                   spk, rec>>

\* the values the state of the component takes, lines 77-88
TypeOK ==
    /\ input \in Texts
    /\ translation = Null \/ DOMAIN translation = {"detectedLanguage", "translation"}
    /\ isTranslating \in BOOLEAN
    /\ \A t \in timers : t.text \in Texts /\ t.elapsed \in 0..LongDelay
    /\ debounceTimerRef \in BOOLEAN
    /\ abortControllerRef \in 0..MaxRequests
    /\ aborted \subseteq ReqIds
    /\ \A r \in ReqIds :
          /\ reqs[r].pc \in {"idle", "awaitCall", "streaming", "ended", "errored"}
          /\ reqs[r].st.detectedLang \in {"", "zh", "en"}
          /\ reqs[r].yielded \in 0..MaxChunks
    /\ Len(remoteCalls) <= MaxRequests
    /\ uncaught \in BOOLEAN
    /\ quiet \in 0..LongDelay
    /\ publishedBy \in 0..MaxRequests
    /\ burst.changes \in 0..2 /\ burst.calls \in 0..MaxRequests

AppInit ==
    /\ input = <<>>
    /\ translation = Null
    /\ isTranslating = FALSE
    /\ timers = {}
    /\ debounceTimerRef = FALSE
    /\ abortControllerRef = 0
    /\ aborted = {}
    /\ reqs = [r \in ReqIds |-> IdleReq]
    /\ remoteCalls = <<>>
    /\ uncaught = FALSE
    /\ quiet = 0
    /\ publishedBy = 0
    /\ burst = [changes |-> 0, calls |-> 0]

DecInit == dec = [pc |-> "off"]

\* the last speech event, kept for the properties
SpeakEvent(kind, isSource, len, lang, remote, local) ==
    [kind |-> kind, isSource |-> isSource, len |-> len, lang |-> lang,
     remote |-> remote, local |-> local]

\* lines 82-83 and 87: both speaking flags false, the audio element silent,
\* nothing queued for synthesis, no remote synthesis call in flight
SpkInit ==
    spk = [isSpeakingSource |-> FALSE,
           isSpeakingTranslation |-> FALSE,
           pending |-> <<>>,
           audio |-> "idle",
           utterances |-> <<>>,
           calls |-> 0,
           event |-> SpeakEvent("none", FALSE, 0, "en", FALSE, FALSE)]

\* lines 79 and 85 after the first run of the effect of lines 91-145: not
\* recording, one recognizer that was never started
RecInit ==
    rec = [isRecording |-> FALSE,
           recognizers |-> <<[isRecording |-> FALSE, state |-> "new"]>>,
           event |-> [kind |-> "none", k |-> 0, code |-> ""]]

Init == AppInit /\ DecInit /\ SpkInit /\ RecInit

Next ==
    \/ \E text \in Texts : SetInput(text)
    \/ Tick
    \/ \E t \in timers : TimerFires(t)
    \/ \E r \in ReqIds : CallResolves(r)
    \/ \E r \in 1..Latest : \E chunkText \in ResponseChunks(remoteCalls[r]) :
            ChunkArrives(r, chunkText)
    \/ \E r \in ReqIds : StreamEnds(r)
    \/ \E r \in ReqIds : StreamErrors(r)

Spec == Init /\ [][Next]_vars

----------------------------------------------------------------------------
(* One run of the translateTextStream generator, lines 52-72, fed with     *)
(* every chunk sequence within the bounds                                  *)

Alphabet == {"z", "H", NL}

\* the strings of at most n characters
StringsUpTo(n) == UNION {[1..k -> Alphabet] : k \in 0..n}

StreamChunks == StringsUpTo(MaxChunkLen)

\* the last two elements of a sequence
LastTwo(q) == IF Len(q) <= 2 THEN q ELSE SubSeq(q, Len(q) - 1, Len(q))

\* the generator is resumed with a chunk: lines 55-68.  dec.first keeps the
\* first chunk that was not skipped, dec.results the last two values yielded
DecChunk(chunkText) ==
    /\ dec.pc = "streaming"
    /\ dec.n < MaxStreamChunks
    /\ IF Skips(chunkText)
       THEN dec' = [dec EXCEPT !.n = @ + 1]
       ELSE LET st == DecodeChunk(dec.st, chunkText)
            IN  dec' = [dec EXCEPT
                          !.n = @ + 1,
                          !.st = st,
                          !.first = IF @ = <<>> THEN <<chunkText>> ELSE @,
                          !.results = LastTwo(Append(@, Result(st)))]
    /\ UNCHANGED <<appVars, spk, rec>>

\* the underlying stream ends: the loop of line 55 ends, nothing is yielded
DecEnd ==
    /\ dec.pc = "streaming"
    /\ dec' = [dec EXCEPT !.pc = "ended", !.st = DecoderInit]
    /\ UNCHANGED <<appVars, spk, rec>>

\* the underlying stream throws: lines 70-72, nothing is yielded
DecError ==
    /\ dec.pc = "streaming"
    /\ dec' = [dec EXCEPT !.pc = IF GeneratorCatches THEN "ended" ELSE "threw",
                          !.st = DecoderInit]
    /\ UNCHANGED <<appVars, spk, rec>>

StreamInit ==
    /\ AppInit
    /\ SpkInit
    /\ RecInit
    /\ dec = [pc |-> "streaming", st |-> DecoderInit, n |-> 0,
              first |-> <<>>, results |-> <<>>]

StreamNext ==
    \/ \E chunkText \in StreamChunks : DecChunk(chunkText)
    \/ DecEnd
    \/ DecError

SpecStream == StreamInit /\ [][StreamNext]_vars

----------------------------------------------------------------------------
(* Speech output: speak, lines 217-262, with the audio element of line 484 *)
(* and the browser's synthesis queue.  A text is modelled by its length.   *)

MaxSpeakCalls == 2

SpeakLimit == 500

SpeakLens == {0, 1, SpeakLimit - 1, SpeakLimit}

Langs == {"zh", "en"}

\* setter(v) of line 220
Setter(s, isSource, v) ==
    IF isSource THEN [s EXCEPT !.isSpeakingSource = v]
                ELSE [s EXCEPT !.isSpeakingTranslation = v]

\* line 225: the remote synthesis is tried
AttemptsRemote(len, isSource) == ~isSource /\ len < SpeakLimit

\* line 254
Locale(lang) == IF lang = "zh" THEN "zh-CN" ELSE "en-US"

\* lines 253-257: an utterance is handed to the browser's synthesis queue
LocalSynthesis(s, lang, isSource) ==
    [s EXCEPT !.utterances =
                  Append(@, [lang |-> Locale(lang), isSource |-> isSource])]

\* audioRef.current is set once the audio element of line 484 is mounted
AudioRefCurrent == TRUE

\* q without its i-th element
RemoveAt(q, i) == SubSeq(q, 1, i - 1) \o SubSeq(q, i + 1, Len(q))

\* speak(text, lang, isSource) up to its first await or its end, lines
\* 217-257.  speakTranslation (line 270) never passes an empty text.
Speak(len, lang, isSource) ==
    /\ spk.calls < MaxSpeakCalls
    /\ isSource \/ len > 0
    /\ LET counted == [spk EXCEPT !.calls = @ + 1]
           remote == AttemptsRemote(len, isSource)
           ev(local) == SpeakEvent("speak", isSource, len, lang, remote, local)
       IN  spk' =
             IF len = 0
             THEN [counted EXCEPT !.event = ev(FALSE)]
             ELSE IF remote
             THEN [Setter(counted, isSource, TRUE) EXCEPT
                      !.pending = Append(@, lang),
                      !.event = ev(FALSE)]
             ELSE [LocalSynthesis(Setter(counted, isSource, TRUE),
                                  lang, isSource) EXCEPT
                      !.event = ev(TRUE)]
    /\ UNCHANGED <<appVars, dec, rec>>

\* the remote synthesis call returns, lines 226-257: with an audio payload
\* the shared audio element is given the new source and played, without one
\* the utterance is synthesised locally
RemoteReturns(i, hasAudio) ==
    /\ i \in 1..Len(spk.pending)
    /\ LET lang == spk.pending[i]
           rest == [spk EXCEPT !.pending = RemoveAt(@, i)]
           ev(local) == SpeakEvent(IF hasAudio THEN "returnedAudio"
                                               ELSE "returnedEmpty",
                                   FALSE, 0, lang, FALSE, local)
       IN  spk' =
             IF hasAudio /\ AudioRefCurrent
             THEN [rest EXCEPT !.audio = "playing", !.event = ev(FALSE)]
             ELSE [LocalSynthesis(rest, lang, FALSE) EXCEPT
                      !.event = ev(TRUE)]
    /\ UNCHANGED <<appVars, dec, rec>>

\* the remote synthesis call throws: the catch of lines 258-261
RemoteThrows(i) ==
    /\ i \in 1..Len(spk.pending)
    /\ spk' = [Setter([spk EXCEPT !.pending = RemoveAt(@, i)], FALSE, FALSE)
                 EXCEPT !.event = SpeakEvent("threw", FALSE, 0,
                                             spk.pending[i], FALSE, FALSE)]
    /\ UNCHANGED <<appVars, dec, rec>>

\* the audio element plays to its end: the onended handler of line 245
AudioEnded ==
    /\ spk.audio = "playing"
    /\ spk' = [Setter(spk, FALSE, FALSE) EXCEPT
                 !.audio = "idle",
                 !.event = SpeakEvent("audioEnded", FALSE, 0, "en",
                                      FALSE, FALSE)]
    /\ UNCHANGED <<appVars, dec, rec>>

\* the playback fails: the promise of play() (line 246) is rejected or the
\* element reports an error; neither has a handler
AudioFails ==
    /\ spk.audio = "playing"
    /\ spk' = [spk EXCEPT
                 !.audio = "idle",
                 !.event = SpeakEvent("audioFailed", FALSE, 0, "en",
                                      FALSE, FALSE)]
    /\ UNCHANGED <<appVars, dec, rec>>

\* the utterance at the head of the synthesis queue ends or fails: the
\* handlers of lines 255 and 256
UtteranceDone(kind) ==
    /\ spk.utterances # <<>>
    /\ LET u == Head(spk.utterances)
       IN  spk' = [Setter(spk, u.isSource, FALSE) EXCEPT
                     !.utterances = Tail(@),
                     !.event = SpeakEvent(kind, u.isSource, 0, "en",
                                          FALSE, FALSE)]
    /\ UNCHANGED <<appVars, dec, rec>>

UtteranceEnds == UtteranceDone("utteranceEnded")

UtteranceErrors == UtteranceDone("utteranceErrored")

SpeakNext ==
    \/ \E len \in SpeakLens : \E lang \in Langs : \E isSource \in BOOLEAN :
            Speak(len, lang, isSource)
    \/ \E i \in 1..MaxSpeakCalls : \E hasAudio \in BOOLEAN :
            RemoteReturns(i, hasAudio)
    \/ \E i \in 1..MaxSpeakCalls : RemoteThrows(i)
    \/ AudioEnded
    \/ AudioFails
    \/ UtteranceEnds
    \/ UtteranceErrors

SpecSpeak == Init /\ [][SpeakNext]_vars

----------------------------------------------------------------------------
(* Speech recognition: the effect of lines 91-145 and toggleRecording,     *)
(* lines 147-159.  rec.recognizers holds every recognizer the effect has   *)
(* created, each with the isRecording value its handlers closed over;      *)
(* recognitionRef.current is the last one.                                 *)

MaxRecognizers == 4

ErrorCodes == {"no-speech", "network"}

Transcripts == Texts

RecognitionRef == Len(rec.recognizers)

\* the effect of lines 91-145 runs after a render with a new isRecording
RecognitionEffect(recs, isRecording) ==
    Append(recs, [isRecording |-> isRecording, state |-> "new"])

\* start() throws on a recognizer that is already started
StartThrows(r) == r.state \in {"running", "stopping"}

\* recognition.start()
Start(r) == IF StartThrows(r) THEN r ELSE [r EXCEPT !.state = "running"]

\* recognition.stop(): nothing happens unless the recognizer is running
Stop(r) == IF r.state = "running" THEN [r EXCEPT !.state = "stopping"] ELSE r

\* onerror without the test of line 125
KeepsListeningNever(code) == FALSE

\* line 125: the error codes on which onerror returns at once
KeepsListening(code) == code = "no-speech"

RecEvent(kind, k, code) == [kind |-> kind, k |-> k, code |-> code]

\* toggleRecording, lines 147-159, with the render and the effect after it
ToggleRecording ==
    /\ Len(rec.recognizers) < MaxRecognizers
    /\ LET k == RecognitionRef
           called == [rec.recognizers EXCEPT
                         ![k] = IF rec.isRecording THEN Stop(@) ELSE Start(@)]
       IN  rec' = [isRecording |-> ~rec.isRecording,
                   recognizers |-> RecognitionEffect(called, ~rec.isRecording),
                   event |-> RecEvent("toggle", k, "")]
    /\ UNCHANGED <<appVars, dec, spk>>

\* onresult of a started recognizer, lines 100-121, with transcript text
RecogResult(k, text) ==
    /\ k \in 1..Len(rec.recognizers)
    /\ rec.recognizers[k].state \in {"running", "stopping"}
    /\ rec' = [rec EXCEPT !.event = RecEvent("result", k, "")]
    /\ IF text # <<>> /\ text # input
       THEN ReplaceInput(text)
       ELSE UNCHANGED <<appVars, dec, spk>>

\* onerror of a started recognizer, lines 123-130, with the render and the
\* effect that follow a change of isRecording
RecogError(k, code) ==
    /\ k \in 1..Len(rec.recognizers)
    /\ rec.recognizers[k].state \in {"running", "stopping"}
    /\ rec.isRecording /\ ~KeepsListening(code) =>
            Len(rec.recognizers) < MaxRecognizers
    /\ rec' = IF KeepsListening(code)
              THEN [rec EXCEPT !.event = RecEvent("error", k, code)]
              ELSE [isRecording |-> FALSE,
                    recognizers |->
                        IF rec.isRecording
                        THEN RecognitionEffect(rec.recognizers, FALSE)
                        ELSE rec.recognizers,
                    event |-> RecEvent("error", k, code)]
    /\ UNCHANGED <<appVars, dec, spk>>

\* onend of a started recognizer, lines 132-141: the session is over, and
\* the handler restarts it when the isRecording it closed over is true
RecogEnd(k) ==
    /\ k \in 1..Len(rec.recognizers)
    /\ rec.recognizers[k].state \in {"running", "stopping"}
    /\ LET ended == [rec.recognizers[k] EXCEPT !.state = "ended"]
       IN  rec' = [rec EXCEPT
                     !.recognizers[k] =
                         IF ended.isRecording THEN Start(ended) ELSE ended,
                     !.event = RecEvent("end", k, "")]
    /\ UNCHANGED <<appVars, dec, spk>>

RecogNext ==
    \/ ToggleRecording
    \/ \E k \in 1..MaxRecognizers : \E text \in Transcripts :
            RecogResult(k, text)
    \/ \E k \in 1..MaxRecognizers : \E code \in ErrorCodes :
            RecogError(k, code)
    \/ \E k \in 1..MaxRecognizers : RecogEnd(k)

SpecRecog == Init /\ [][RecogNext]_vars

----------------------------------------------------------------------------
(* Vocabulary of the properties *)

\* text consists of white space only (or is empty)
OnlyWhiteSpace(text) == \A i \in 1..Len(text) : IsSpace(text[i])

\* a is a prefix of b, or equal to it
IsPrefix(a, b) == Len(a) <= Len(b) /\ SubSeq(b, 1, Len(a)) = a

\* the part of a string before its first newline
FirstLineOf(s) ==
    LET ends == {i \in 1..Len(s) : s[i] = NL}
    IN  IF ends = {} THEN s
        ELSE SubSeq(s, 1, (CHOOSE i \in ends : \A j \in ends : i <= j) - 1)

\* s holds a z directly followed by an h, in either case
HasZhAnyCase(s) ==
    \E i \in 1..(Len(s) - 1) : s[i] \in {"z", "Z"} /\ s[i + 1] \in {"h", "H"}

\* the debounce delay as the specification states it
StatedDelay(text) == IF Len(text) < 5 THEN 200 ELSE 400

\* this step is the callback of timer t: performTranslation(t.text) is called
Dispatches(t) == t \in timers /\ timers' = timers \ {t} /\ input' = input

\* this step publishes a result of request r
Publishes(r) == reqs'[r].yielded = reqs[r].yielded + 1

\* this step is the normal end of request r's stream
EndsNormally(r) == reqs[r].pc = "streaming" /\ reqs'[r].pc = "ended"

\* this step is the failure of request r's remote call or stream
Fails(r) == Active(r) /\ reqs'[r].pc = "errored"

----------------------------------------------------------------------------
(* Properties of the request coordinator and the debounce effect (Spec) *)

\* C1: once a newer non-empty text has been submitted, no result of an
\* earlier request is written to the published translation: only the request
\* started last publishes.
C1_OnlyLatestPublishes ==
    [][\A r \in ReqIds : Publishes(r) => r = Latest]_vars

\* C2: while the input is empty or white space only and the translation has
\* been cleared, it stays cleared, whatever the stream of the request that was
\* in flight still delivers.
C2_ClearedStaysCleared ==
    [][(OnlyWhiteSpace(input) /\ input' = input /\ translation = Null)
          => translation' = Null]_vars

\* C3: a submit of an empty or white-space-only text sets the published
\* translation to none in that step and issues no remote call; no remote call
\* is ever issued for such a text.
C3_BlankSubmitClears ==
    [][/\ \A t \in timers :
            (Dispatches(t) /\ OnlyWhiteSpace(t.text))
                => (translation' = Null /\ remoteCalls' = remoteCalls)
       /\ \A i \in 1..Len(remoteCalls') : ~OnlyWhiteSpace(remoteCalls'[i])]_vars

\* C3 witness: the white-space-only input was submitted (its timer is gone
\* while the input still holds it) while a request that had published is
\* still streaming, and the translation is none.
C3_Witness ==
    /\ input = <<" ">>
    /\ timers = {}
    /\ translation = Null
    /\ \E r \in ReqIds : reqs[r].pc = "streaming" /\ reqs[r].yielded > 0

\* C4: while the request started last is still streaming, isTranslating is not
\* turned off by anything but an empty submit; in particular not by the
\* completion of an older request.
C4_FlagStaysOnForLatest ==
    [][(/\ Latest > 0
        /\ Active(Latest)
        /\ isTranslating
        /\ Latest' = Latest
        /\ reqs'[Latest].pc \in {"awaitCall", "streaming"}
        /\ ~\E t \in timers : Dispatches(t) /\ OnlyWhiteSpace(t.text))
          => isTranslating']_vars

\* C7: when a stream ends normally after at least one non-empty chunk, the
\* last result published for the request has isComplete = true.
C7_LastResultIsComplete ==
    [][\A r \in ReqIds :
          (EndsNormally(r) /\ reqs[r].yielded > 0)
              => IsComplete(IF publishedBy' = r /\ translation' # translation
                            THEN translation'
                            ELSE Result(reqs[r].st))]_vars

\* C8: when a stream ends without any non-empty chunk, the published
\* translation is none afterwards.
C8_EmptyStreamClears ==
    [][\A r \in ReqIds :
          (EndsNormally(r) /\ reqs[r].yielded = 0) => translation' = Null]_vars

\* C9: when the remote call or the stream of a request fails, the published
\* translation keeps its value, isTranslating becomes false, no exception
\* leaves performTranslation, and the request publishes nothing afterwards.
C9_ErrorIsAbsorbed ==
    [][\A r \in ReqIds :
          /\ Fails(r) => /\ translation' = translation
                         /\ publishedBy' = publishedBy
                         /\ ~isTranslating'
                         /\ ~uncaught'
          /\ reqs[r].pc = "errored" => /\ reqs'[r] = reqs[r]
                                       /\ ~Publishes(r)]_vars

\* C9 witness: a request failed after it had published; its last result is
\* still the published one and the flag is off.
C9_Witness ==
    \E r \in ReqIds :
        /\ reqs[r].pc = "errored"
        /\ publishedBy = r
        /\ translation # Null
        /\ ~isTranslating
        /\ ~uncaught

\* C10: performTranslation is called by the debounce timer only for the
\* current input and only once the input has been unchanged for 200 ms (fewer
\* than 5 characters) or 400 ms (otherwise); every input change leaves exactly
\* the new text's timer pending, freshly started, or none for the empty text.
C10_DebounceDelay ==
    [][/\ \A t \in timers :
            Dispatches(t) => (t.text = input /\ quiet >= StatedDelay(t.text))
       /\ input' # input =>
            /\ Cardinality(timers') = (IF input' = <<>> THEN 0 ELSE 1)
            /\ \A t \in timers' : /\ t.text = input'
                                  /\ t.delay = StatedDelay(input')
                                  /\ t.elapsed = 0]_vars

\* C10 witness: a 5-character text was dispatched after 400 ms of quiet and a
\* shorter one after 200 ms.
C10_Witness ==
    /\ Latest = 2
    /\ Len(remoteCalls[1]) >= 5
    /\ Len(remoteCalls[2]) < 5
    /\ input = remoteCalls[2]
    /\ quiet = 200

\* the current burst of input changes is over: its last text has stayed for
\* its delay and its timer is no longer pending
Settled ==
    burst.changes > 0 /\ timers = {} /\ quiet >= StatedDelay(input)

\* C11 as stated: a burst of input changes issues exactly one remote call,
\* and the call carries the last text of the burst.
C11_BurstIssuesOneCall ==
    /\ burst.calls <= 1
    /\ burst.calls = 1 => remoteCalls[Latest] = input
    /\ Settled => burst.calls = 1

\* C11 as amended: a burst issues at most one remote call, only once its last
\* text has stayed for its delay and for that text; it issues exactly one
\* when the last text is not empty or white space only, and none when it is.
C11_BurstIssuesOneCallUnlessBlank ==
    /\ burst.calls <= 1
    /\ burst.calls = 1 =>
          /\ remoteCalls[Latest] = input
          /\ timers = {}
          /\ quiet >= StatedDelay(input)
    /\ Settled => burst.calls = (IF OnlyWhiteSpace(input) THEN 0 ELSE 1)

\* C11 witness: a burst of two or more changes ended with a 5-character
\* text, and the only remote call of the run carries that text.
C11_Witness ==
    /\ burst.changes = 2
    /\ burst.calls = 1
    /\ Latest = 1
    /\ input = <<"h", "e", "l", "l", "o">>
    /\ remoteCalls = <<input>>

\* C12: a change of the input to the empty string leaves no timer pending and
\* clears the published translation in that step; while the input is empty no
\* timer callback runs and no remote call is issued.
C12_EmptyInputCancels ==
    [][/\ (input # <<>> /\ input' = <<>>) =>
              (timers' = {} /\ translation' = Null)
       /\ input = <<>> =>
              /\ \A t \in timers : ~Dispatches(t)
              /\ input' = <<>> => (timers' = {} /\ remoteCalls' = remoteCalls)]_vars

\* C12 witness: the input was cleared within the delay of the text it
\* replaced, after a translation had been published; no timer is pending and
\* the translation is none.
C12_Witness ==
    /\ input = <<>>
    /\ quiet = 0
    /\ burst.changes = 2
    /\ timers = {}
    /\ translation = Null
    /\ \E r \in ReqIds : reqs[r].yielded > 0

\* C13: when the same text was submitted twice in succession, the published
\* translation only grows, as it does for a single submission: the first call
\* never brings back an earlier value.
C13_ResubmitShowsNothingStale ==
    [][(/\ Latest = 2
        /\ remoteCalls[1] = remoteCalls[2]
        /\ remoteCalls' = remoteCalls
        /\ translation # Null
        /\ translation' # Null)
          => IsPrefix(translation.translation, translation'.translation)]_vars

\* C19: once no started stream is left running isTranslating is false, and
\* the flag is turned off only by a request finishing or by an empty submit.
C19_FlagOffWhenAllDone ==
    [][/\ (\A r \in ReqIds : reqs'[r].pc \notin {"awaitCall", "streaming"})
              => ~isTranslating'
       /\ (isTranslating /\ ~isTranslating') =>
              \/ \E r \in ReqIds :
                    Active(r) /\ reqs'[r].pc \in {"ended", "errored"}
              \/ \E t \in timers : Dispatches(t) /\ OnlyWhiteSpace(t.text)]_vars

\* C19 witness: two requests were started, one failed and one ended, and the
\* flag is off.
C19_Witness ==
    /\ Latest = 2
    /\ reqs[1].pc = "errored"
    /\ reqs[2].pc = "ended"
    /\ ~isTranslating

----------------------------------------------------------------------------
(* Properties of the speech output (SpecSpeak) *)

\* the speaking flag of a side
IsSpeaking(s, isSource) ==
    IF isSource THEN s.isSpeakingSource ELSE s.isSpeakingTranslation

\* the events with which a playback completes or fails
PlaybackOver ==
    {"audioEnded", "audioFailed", "threw", "utteranceEnded",
     "utteranceErrored"}

\* the locale the specification states for a language
StatedLocale(lang) == IF lang = "zh" THEN "zh-CN" ELSE "en-US"

\* C14: every step in which a playback completes or fails (remote audio
\* ending or failing, remote call throwing, local synthesis ending or
\* erroring) leaves the speaking flag of its side false.
C14_FlagResetOnEveryPath ==
    [][(spk' # spk /\ spk'.event.kind \in PlaybackOver)
           => ~IsSpeaking(spk', spk'.event.isSource)]_vars

\* C15: a speak call with a non-empty text attempts the remote synthesis
\* exactly when it is not for the source side and the text has fewer than
\* 500 characters; and whenever the remote synthesis is skipped, throws or
\* returns no audio, an utterance with locale zh-CN for zh and en-US for en
\* is handed to the local synthesis in the same step.
C15_RemoteElseLocal ==
    [][spk' # spk =>
          LET e == spk'.event
              spoken == e.kind = "speak" /\ e.len > 0
          IN  /\ spoken => (e.remote <=> (~e.isSource /\ e.len < 500))
              /\ (\/ spoken /\ ~e.remote
                  \/ e.kind \in {"threw", "returnedEmpty"})
                 => /\ e.local
                    /\ Len(spk'.utterances) > 0
                    /\ spk'.utterances[Len(spk'.utterances)] =
                           [lang |-> StatedLocale(e.lang),
                            isSource |-> e.isSource]]_vars

----------------------------------------------------------------------------
(* Properties of the speech recognition (SpecRecog) *)

\* C16: when a recognizer that was started ends while the recording state is
\* on, it is started again, or (its start having thrown) the recording state
\* is turned off.
C16_EndWhileRecordingRestarts ==
    [][(rec' # rec /\ rec'.event.kind = "end" /\ rec.isRecording)
           => \/ rec'.recognizers[rec'.event.k].state = "running"
              \/ ~rec'.isRecording]_vars

\* C17: an error with code "no-speech" leaves the recording state and every
\* recognizer as they were; an error with any other code turns the recording
\* state off and starts no recognizer.
C17_ErrorTurnsOffUnlessNoSpeech ==
    [][(rec' # rec /\ rec'.event.kind = "error") =>
          IF rec'.event.code = "no-speech"
          THEN /\ rec'.isRecording = rec.isRecording
               /\ rec'.recognizers = rec.recognizers
          ELSE /\ ~rec'.isRecording
               /\ \A k \in 1..Len(rec'.recognizers) :
                     rec'.recognizers[k].state = "running" =>
                         /\ k <= Len(rec.recognizers)
                         /\ rec.recognizers[k].state = "running"]_vars

\* C17 witness: while recording, the started recognizer reported an error
\* other than no-speech; the recording state is off and the recognizer the
\* effect then created was not started.
C17_Witness ==
    /\ rec.event = RecEvent("error", 1, "network")
    /\ ~rec.isRecording
    /\ Len(rec.recognizers) = 3
    /\ rec.recognizers[2].isRecording
    /\ \A k \in 2..3 : rec.recognizers[k].state = "new"

\* C17 second case: while recording, the started recognizer reported
\* no-speech and the recording state is still on.
C17_WitnessNoSpeech ==
    /\ rec.event = RecEvent("error", 1, "no-speech")
    /\ rec.isRecording
    /\ rec.recognizers[1].state = "running"

\* C20: the step in which toggleRecording turns the recording off stops
\* every running recognizer, so none stays running to deliver transcripts.
C20_StopReachesStartedRecognizer ==
    [][(rec'.event.kind = "toggle" /\ rec.isRecording /\ ~rec'.isRecording)
           => \A k \in 1..Len(rec.recognizers) :
                 rec'.recognizers[k].state # "running"]_vars

----------------------------------------------------------------------------
(* Properties of the stream decoder (SpecStream) *)

\* C5: the translation text of each result the generator yields is a prefix
\* of (or equal to) the translation text of the next result it yields.
C5_ResultsGrowByPrefix ==
    Len(dec.results) = 2 =>
        IsPrefix(dec.results[1].translation, dec.results[2].translation)

\* C5 witness: two results were yielded, the second a proper extension of a
\* non-empty first.
C5_Witness ==
    /\ Len(dec.results) = 2
    /\ dec.results[1].translation # <<>>
    /\ Len(dec.results[2].translation) > Len(dec.results[1].translation)

\* C6: every result carries language zh exactly when the first line of the
\* first non-empty chunk contains "zh" in any case, and en otherwise.
C6_LanguageFromFirstLine ==
    /\ (dec.results # <<>>) => (dec.first # <<>>)
    /\ \A i \in 1..Len(dec.results) :
          dec.results[i].detectedLanguage =
              (IF HasZhAnyCase(FirstLineOf(dec.first[1])) THEN "zh" ELSE "en")

\* C6 witness: of three chunks one was empty and skipped; the first
\* non-empty one decided en, and the later one, which contains "zh", was
\* appended without changing the language.
C6_Witness ==
    /\ dec.n = 3
    /\ Len(dec.results) = 2
    /\ dec.results[2].detectedLanguage = "en"
    /\ HasZhAnyCase(dec.results[2].translation)
    /\ ~HasZhAnyCase(dec.results[1].translation)

\* C6 second case: the language was decided zh from a mixed-case first line.
C6_WitnessZh ==
    /\ dec.first = << <<"z", "H">> >>
    /\ Len(dec.results) = 2
    /\ dec.results[2].detectedLanguage = "zh"

\* C18: a result is emitted only when a chunk appended text to the buffer, so
\* no yielded result has an empty translation and each yielded translation is
\* longer than the one yielded before it.
C18_EmitsOnlyOnAppend ==
    /\ \A i \in 1..Len(dec.results) : dec.results[i].translation # <<>>
    /\ Len(dec.results) = 2 =>
          Len(dec.results[2].translation) > Len(dec.results[1].translation)

\* the response received so far: the first chunk that was not skipped,
\* followed by the text the later chunks appended to the buffer
ResponseSoFar ==
    dec.first[1] \o
        SubSeq(dec.st.fullText, Len(Remaining(dec.first[1])) + 1,
               Len(dec.st.fullText))

\* s with its first line and that line's newline removed
AfterFirstLine(s) == SubSeq(s, Len(FirstLineOf(s)) + 2, Len(s))

\* C21: however the response text is cut into non-empty chunks, the decoder
\* holds the language of the response's first line and, as translation, the
\* response with its first line removed.
C21_ChunkBoundariesDoNotMatter ==
    (dec.pc = "streaming" /\ dec.first # <<>>) =>
        /\ dec.st.detectedLang =
              (IF HasZhAnyCase(FirstLineOf(ResponseSoFar)) THEN "zh" ELSE "en")
        /\ dec.st.fullText = AfterFirstLine(ResponseSoFar)

====
